---- MODULE Spec2Model ----
(***************************************************************************)
(* Model of cmd/scepserver/scepserver.go.                                  *)
(*                                                                         *)
(* Two state machines share this module:                                   *)
(*   SpecBoot  - any number (NRuns) of "scepserver ca" processes running   *)
(*               caMain against one depot directory, interleaved at the    *)
(*               granularity of their file-system calls;                   *)
(*   SpecServe - one server process running main: flag parsing, secret     *)
(*               resolution, CA load, signer chain construction, service   *)
(*               assembly, the two reporting goroutines and the signing    *)
(*               requests that travel through the signer chain.            *)
(*                                                                         *)
(* Strings are sequences of one-character strings; "\n" is the newline.    *)
(* os.Remove and file.Close are taken to succeed (POSIX semantics).        *)
(***************************************************************************)
EXTENDS Integers, Sequences, FiniteSets, TLC

\* ------------------------------------------------------------------ bounds

\* The number of bootstrap processes run against the depot.
NRuns == 2

\* The longest contents of a secret file.
MaxLen == 2

Runs == 1..NRuns

\* The characters of flag values, file contents and challenges.
Chars == {"p", "\n"}

\* The strings over Chars of length at most n.
Strings(n) == UNION {[1..k -> Chars] : k \in 0..n}

\* The file paths given to a ...File flag: none, or the one file.
Paths == {<<>>, <<"f">>}

\* ------------------------------------------------------------------ state

VARIABLES
    \* the depot directory, shared by all bootstrap runs
    dirExists, keyFile, pemFile,
    \* one "scepserver ca" process per run
    pc, flInit, key, crtBytes, ckErr, ccaErr, status,
    \* the flags of the server process
    flVersion, flCAPass, flCAPassFile, flChallengePassword,
    flChallengePasswordFile, flCSRVerifierExec,
    \* main: its place, its exit status, what it logged with lginfo.Log
    mpc, exit, log,
    \* main: its locals
    allowRenewal, clientValidity, csrVerifier, CAPass, CAPassFileContent,
    content, crts, signer, svc,
    \* the calls of ioutil.ReadFile and of depot.CA, and their outcomes
    reads, ca,
    \* the errs channel and the two goroutines that send on it
    errs, lpc, spc,
    \* the signing request travelling through the signer chain
    sign

bootVars == <<dirExists, keyFile, pemFile, pc, flInit, key, crtBytes, ckErr, ccaErr, status>>

flagVars == <<flVersion, flCAPass, flCAPassFile, flChallengePassword,
              flChallengePasswordFile, flCSRVerifierExec>>

localVars == <<allowRenewal, clientValidity, csrVerifier, CAPass,
               CAPassFileContent, content, crts, signer, svc, reads, ca>>

chanVars == <<errs, lpc, spc>>

serveVars == <<flagVars, mpc, exit, log, localVars, chanVars, sign>>

vars == <<bootVars, serveVars>>

\* A path of the depot at which no file exists.
NoFile == [exists |-> FALSE, owner |-> 0, data |-> "none", key |-> 0]

\* The file made by O_WRONLY|O_CREATE|O_EXCL: empty, created by run r.
NewFile(r) == [exists |-> TRUE, owner |-> r, data |-> "empty", key |-> 0]

\* A complete file that was in the depot before any of the runs started.
OldFile == [exists |-> TRUE, owner |-> 0, data |-> "pem", key |-> 0]

\* The exit status of a process that has not exited.
Running == -1

\* ------------------------------------------------------------------ main: state

\* No signing request has been made.
NoSign == [state |-> "idle", csr |-> "ok", challenge |-> <<>>, at |-> 0,
           trail |-> <<>>, result |-> "none"]

\* depot.CA has not been called.
NoCA == [called |-> FALSE, pass |-> <<>>, result |-> "none"]

\* The locals of main before any of them is assigned, and the goroutines
\* before they are started.
MainEntry ==
    /\ mpc = "flags"
    /\ exit = Running
    /\ log = <<>>
    /\ allowRenewal = 0
    /\ clientValidity = 0
    /\ csrVerifier = "nil"
    /\ CAPass = <<>>
    /\ CAPassFileContent = <<>>
    /\ content = <<>>
    /\ crts = 0
    /\ signer = <<>>
    /\ svc = <<>>
    /\ reads = [capass |-> "none", challenge |-> "none"]
    /\ ca = NoCA
    /\ errs = <<>>
    /\ lpc = "none"
    /\ spc = "none"
    /\ sign = NoSign

\* The server process when only bootstrap processes are run.
ServeIdle ==
    /\ flVersion = FALSE
    /\ flCAPass = <<>>
    /\ flCAPassFile = <<>>
    /\ flChallengePassword = <<>>
    /\ flChallengePasswordFile = <<>>
    /\ flCSRVerifierExec = <<>>
    /\ MainEntry

\* ------------------------------------------------------------------ caMain

InitBoot ==
    /\ dirExists \in BOOLEAN
    /\ keyFile \in IF dirExists THEN {NoFile, OldFile} ELSE {NoFile}
    /\ pemFile \in IF dirExists THEN {NoFile, OldFile} ELSE {NoFile}
    /\ pc = [r \in Runs |-> "caMain"]
    /\ flInit = [r \in Runs |-> FALSE]
    /\ key = [r \in Runs |-> 0]
    /\ crtBytes = [r \in Runs |-> 0]
    /\ ckErr = [r \in Runs |-> "nil"]
    /\ ccaErr = [r \in Runs |-> "nil"]
    /\ status = [r \in Runs |-> Running]
    /\ ServeIdle

\* cmd.Parse and the test of *flInit.
caMain(r) ==
    /\ pc[r] = "caMain"
    /\ \E init \in BOOLEAN :
        /\ flInit' = [flInit EXCEPT ![r] = init]
        /\ IF init
             THEN /\ pc' = [pc EXCEPT ![r] = "MkdirAll"]
                  /\ status' = status
             ELSE /\ pc' = [pc EXCEPT ![r] = "exited"]
                  /\ status' = [status EXCEPT ![r] = 0]
    /\ UNCHANGED <<serveVars, dirExists, keyFile, pemFile, key, crtBytes, ckErr, ccaErr>>

\* createKey: os.MkdirAll(depot, 0755).
createKey_MkdirAll(r) ==
    /\ pc[r] = "MkdirAll"
    /\ \E ok \in BOOLEAN :
        IF dirExists \/ ok
          THEN /\ dirExists' = TRUE
               /\ pc' = [pc EXCEPT ![r] = "OpenKey"]
               /\ ckErr' = ckErr
          ELSE /\ dirExists' = dirExists
               /\ pc' = [pc EXCEPT ![r] = "keyReturned"]
               /\ ckErr' = [ckErr EXCEPT ![r] = "MkdirFailed"]
    /\ UNCHANGED <<serveVars, keyFile, pemFile, flInit, key, crtBytes, ccaErr, status>>

\* Mutant: the open drops O_EXCL for O_TRUNC and so takes over an existing file.
createKey_OpenFile_Trunc(r) ==
    /\ pc[r] = "OpenKey"
    /\ \E ok \in BOOLEAN :
        IF ok /\ dirExists
          THEN /\ keyFile' = NewFile(r)
               /\ pc' = [pc EXCEPT ![r] = "GenerateKey"]
               /\ ckErr' = ckErr
          ELSE /\ keyFile' = keyFile
               /\ pc' = [pc EXCEPT ![r] = "keyReturned"]
               /\ ckErr' = [ckErr EXCEPT ![r] = "OpenFailed"]
    /\ UNCHANGED <<serveVars, dirExists, pemFile, flInit, key, crtBytes, ccaErr, status>>

\* Mutant: an existence test in place of O_EXCL; the test and the create are
\* two calls, and a run that saw no file creates one whatever happened since.
createKey_OpenFile_CheckThenCreate(r) ==
    /\ pc[r] = "OpenKey"
    /\ \E sawFile \in {keyFile.exists, FALSE} :
        IF sawFile
          THEN /\ keyFile' = keyFile
               /\ pc' = [pc EXCEPT ![r] = "keyReturned"]
               /\ ckErr' = [ckErr EXCEPT ![r] = "KeyAlreadyExists"]
          ELSE /\ dirExists
               /\ keyFile' = NewFile(r)
               /\ pc' = [pc EXCEPT ![r] = "GenerateKey"]
               /\ ckErr' = ckErr
    /\ UNCHANGED <<serveVars, dirExists, pemFile, flInit, key, crtBytes, ccaErr, status>>

\* createKey: os.OpenFile(ca.key, O_WRONLY|O_CREATE|O_EXCL, 0400).
createKey_OpenFile(r) ==
    /\ pc[r] = "OpenKey"
    /\ \E ok \in BOOLEAN :
        IF keyFile.exists
          THEN /\ keyFile' = keyFile
               /\ pc' = [pc EXCEPT ![r] = "keyReturned"]
               /\ ckErr' = [ckErr EXCEPT ![r] = "KeyAlreadyExists"]
          ELSE IF ok /\ dirExists
            THEN /\ keyFile' = NewFile(r)
                 /\ pc' = [pc EXCEPT ![r] = "GenerateKey"]
                 /\ ckErr' = ckErr
            ELSE /\ keyFile' = keyFile
                 /\ pc' = [pc EXCEPT ![r] = "keyReturned"]
                 /\ ckErr' = [ckErr EXCEPT ![r] = "OpenFailed"]
    /\ UNCHANGED <<serveVars, dirExists, pemFile, flInit, key, crtBytes, ccaErr, status>>

\* createKey: rsa.GenerateKey(rand.Reader, bits); the key of run r is key r.
createKey_GenerateKey(r) ==
    /\ pc[r] = "GenerateKey"
    /\ \E ok \in BOOLEAN :
        IF ok
          THEN /\ key' = [key EXCEPT ![r] = r]
               /\ pc' = [pc EXCEPT ![r] = "EncryptPEMBlock"]
               /\ ckErr' = ckErr
          ELSE /\ key' = key
               /\ pc' = [pc EXCEPT ![r] = "keyReturned"]
               /\ ckErr' = [ckErr EXCEPT ![r] = "GenerateKeyFailed"]
    /\ UNCHANGED <<serveVars, dirExists, keyFile, pemFile, flInit, crtBytes, ccaErr, status>>

\* createKey: x509.EncryptPEMBlock(...).
createKey_EncryptPEMBlock(r) ==
    /\ pc[r] = "EncryptPEMBlock"
    /\ \E ok \in BOOLEAN :
        IF ok
          THEN /\ pc' = [pc EXCEPT ![r] = "EncodeKey"]
               /\ ckErr' = ckErr
          ELSE /\ pc' = [pc EXCEPT ![r] = "keyReturned"]
               /\ ckErr' = [ckErr EXCEPT ![r] = "EncryptFailed"]
    /\ key' = [key EXCEPT ![r] = IF pc'[r] = "keyReturned" THEN 0 ELSE key[r]]
    /\ UNCHANGED <<serveVars, dirExists, keyFile, pemFile, flInit, crtBytes, ccaErr, status>>

\* createKey: pem.Encode(file, privPEMBlock); a failed write leaves the file
\* empty or partly written.
createKey_Encode(r) ==
    /\ pc[r] = "EncodeKey"
    /\ \E written \in {"pem", "partial", "empty"} :
        IF written = "pem"
          THEN /\ keyFile' = [keyFile EXCEPT !.data = "pem", !.key = key[r]]
               /\ pc' = [pc EXCEPT ![r] = "keyReturned"]
               /\ ckErr' = ckErr
          ELSE /\ keyFile' = [keyFile EXCEPT !.data = written]
               /\ pc' = [pc EXCEPT ![r] = "RemoveKey"]
               /\ ckErr' = [ckErr EXCEPT ![r] = "WriteFailed"]
    /\ UNCHANGED <<serveVars, dirExists, pemFile, flInit, key, crtBytes, ccaErr, status>>

\* Mutant: the failed write returns without os.Remove.
createKey_Remove_Skipped(r) ==
    /\ pc[r] = "RemoveKey"
    /\ keyFile' = keyFile
    /\ key' = [key EXCEPT ![r] = 0]
    /\ pc' = [pc EXCEPT ![r] = "keyReturned"]
    /\ UNCHANGED <<serveVars, dirExists, pemFile, flInit, crtBytes, ckErr, ccaErr, status>>

\* createKey: os.Remove(name) after the failed write, then return nil, err.
createKey_Remove(r) ==
    /\ pc[r] = "RemoveKey"
    /\ keyFile' = NoFile
    /\ key' = [key EXCEPT ![r] = 0]
    /\ pc' = [pc EXCEPT ![r] = "keyReturned"]
    /\ UNCHANGED <<serveVars, dirExists, pemFile, flInit, crtBytes, ckErr, ccaErr, status>>

\* Mutant: caMain goes on to the certificate whatever createKey returned.
caMain_afterKey_ErrIgnored(r) ==
    /\ pc[r] = "keyReturned"
    /\ pc' = [pc EXCEPT ![r] = "SelfSign"]
    /\ status' = status
    /\ UNCHANGED <<serveVars, dirExists, keyFile, pemFile, flInit, key, crtBytes, ckErr, ccaErr>>

\* caMain: the test of createKey's error.
caMain_afterKey(r) ==
    /\ pc[r] = "keyReturned"
    /\ IF ckErr[r] # "nil"
         THEN /\ pc' = [pc EXCEPT ![r] = "exited"]
              /\ status' = [status EXCEPT ![r] = 1]
         ELSE /\ pc' = [pc EXCEPT ![r] = "SelfSign"]
              /\ status' = status
    /\ UNCHANGED <<serveVars, dirExists, keyFile, pemFile, flInit, key, crtBytes, ckErr, ccaErr>>

\* createCertificateAuthority: cert.SelfSign(rand.Reader, &key.PublicKey, key).
createCertificateAuthority_SelfSign(r) ==
    /\ pc[r] = "SelfSign"
    /\ \E ok \in BOOLEAN :
        IF ok
          THEN /\ crtBytes' = [crtBytes EXCEPT ![r] = key[r]]
               /\ pc' = [pc EXCEPT ![r] = "OpenCert"]
               /\ ccaErr' = ccaErr
          ELSE /\ crtBytes' = crtBytes
               /\ pc' = [pc EXCEPT ![r] = "certReturned"]
               /\ ccaErr' = [ccaErr EXCEPT ![r] = "SelfSignFailed"]
    /\ UNCHANGED <<serveVars, dirExists, keyFile, pemFile, flInit, key, ckErr, status>>

\* createCertificateAuthority: os.OpenFile(ca.pem, O_WRONLY|O_CREATE|O_EXCL, 0400).
createCertificateAuthority_OpenFile(r) ==
    /\ pc[r] = "OpenCert"
    /\ \E ok \in BOOLEAN :
        IF pemFile.exists
          THEN /\ pemFile' = pemFile
               /\ pc' = [pc EXCEPT ![r] = "certReturned"]
               /\ ccaErr' = [ccaErr EXCEPT ![r] = "CertAlreadyExists"]
          ELSE IF ok /\ dirExists
            THEN /\ pemFile' = NewFile(r)
                 /\ pc' = [pc EXCEPT ![r] = "WriteCert"]
                 /\ ccaErr' = ccaErr
            ELSE /\ pemFile' = pemFile
                 /\ pc' = [pc EXCEPT ![r] = "certReturned"]
                 /\ ccaErr' = [ccaErr EXCEPT ![r] = "OpenFailed"]
    /\ UNCHANGED <<serveVars, dirExists, keyFile, flInit, key, crtBytes, ckErr, status>>

\* createCertificateAuthority: file.Write(pemCert(crtBytes)).
createCertificateAuthority_Write(r) ==
    /\ pc[r] = "WriteCert"
    /\ \E written \in {"pem", "partial", "empty"} :
        IF written = "pem"
          THEN /\ pemFile' = [pemFile EXCEPT !.data = "pem", !.key = crtBytes[r]]
               /\ pc' = [pc EXCEPT ![r] = "certReturned"]
               /\ ccaErr' = ccaErr
          ELSE /\ pemFile' = [pemFile EXCEPT !.data = written]
               /\ pc' = [pc EXCEPT ![r] = "RemoveCert"]
               /\ ccaErr' = [ccaErr EXCEPT ![r] = "WriteFailed"]
    /\ UNCHANGED <<serveVars, dirExists, keyFile, flInit, key, crtBytes, ckErr, status>>

\* createCertificateAuthority: file.Close(); os.Remove(name); return err.
createCertificateAuthority_Remove(r) ==
    /\ pc[r] = "RemoveCert"
    /\ pemFile' = NoFile
    /\ pc' = [pc EXCEPT ![r] = "certReturned"]
    /\ UNCHANGED <<serveVars, dirExists, keyFile, flInit, key, crtBytes, ckErr, ccaErr, status>>

\* Mutant: caMain returns 0 whatever createCertificateAuthority returned.
caMain_afterCert_AlwaysZero(r) ==
    /\ pc[r] = "certReturned"
    /\ pc' = [pc EXCEPT ![r] = "exited"]
    /\ status' = [status EXCEPT ![r] = 0]
    /\ UNCHANGED <<serveVars, dirExists, keyFile, pemFile, flInit, key, crtBytes, ckErr, ccaErr>>

\* caMain: the test of createCertificateAuthority's error, and return 0.
caMain_afterCert(r) ==
    /\ pc[r] = "certReturned"
    /\ pc' = [pc EXCEPT ![r] = "exited"]
    /\ status' = [status EXCEPT ![r] = IF ccaErr[r] # "nil" THEN 1 ELSE 0]
    /\ UNCHANGED <<serveVars, dirExists, keyFile, pemFile, flInit, key, crtBytes, ckErr, ccaErr>>

NextBoot ==
    \E r \in Runs :
        \/ caMain(r)
        \/ createKey_MkdirAll(r)
        \/ createKey_OpenFile(r)
        \/ createKey_GenerateKey(r)
        \/ createKey_EncryptPEMBlock(r)
        \/ createKey_Encode(r)
        \/ createKey_Remove(r)
        \/ caMain_afterKey(r)
        \/ createCertificateAuthority_SelfSign(r)
        \/ createCertificateAuthority_OpenFile(r)
        \/ createCertificateAuthority_Write(r)
        \/ createCertificateAuthority_Remove(r)
        \/ caMain_afterCert(r)

SpecBoot == InitBoot /\ [][NextBoot]_vars

\* The runs against a depot directory that holds neither ca.key nor ca.pem.
InitBootEmpty == InitBoot /\ keyFile = NoFile /\ pemFile = NoFile

SpecBootEmpty == InitBootEmpty /\ [][NextBoot]_vars

\* ------------------------------------------------------------------ bootstrap: properties

\* Run r was started with -init and exited 0.
Succeeded(r) == pc[r] = "exited" /\ flInit[r] /\ status[r] = 0

\* Run r was started with -init and has exited.
Finished(r) == pc[r] = "exited" /\ flInit[r]

\* ca.key and ca.pem are the complete files written by run r.
DepotOf(r) ==
    /\ keyFile = [exists |-> TRUE, owner |-> r, data |-> "pem", key |-> r]
    /\ pemFile = [exists |-> TRUE, owner |-> r, data |-> "pem", key |-> r]

\* A step that changes an existing file is a step of the run that created it.
OnlyCreatorTouches(f, g) ==
    f.exists /\ g # f =>
        /\ f.owner \in Runs
        /\ pc'[f.owner] # pc[f.owner]
        /\ g.exists => g.owner = f.owner

\* C1: a bootstrap run started after another run has succeeded exits 1 with
\* the key-exists error and leaves ca.key and ca.pem as the first run wrote
\* them; and in any sequence of runs, an existing ca.key or ca.pem is never
\* overwritten or modified by a run other than the one that created it.
C1_SecondRunCollides ==
    /\ \A r0 \in Runs : \A r \in Runs \ {r0} :
         [](Succeeded(r0) /\ pc[r] = "caMain" =>
              [](Finished(r) =>
                   /\ status[r] = 1
                   /\ ckErr[r] = "KeyAlreadyExists"
                   /\ DepotOf(r0)))
    /\ [][/\ OnlyCreatorTouches(keyFile, keyFile')
          /\ OnlyCreatorTouches(pemFile, pemFile')]_vars

C1_Witness ==
    \E r0 \in Runs : \E r \in Runs \ {r0} :
        /\ Succeeded(r0)
        /\ Finished(r) /\ status[r] = 1 /\ ckErr[r] = "KeyAlreadyExists"
        /\ DepotOf(r0)

\* C5: when createKey has returned a write error, no ca.key created by that
\* call exists; when createCertificateAuthority has returned a write error,
\* no ca.pem created by that call exists.
C5_WriteFailureCleansUp ==
    \A r \in Runs :
        /\ (ckErr[r] = "WriteFailed" /\ pc[r] \in {"keyReturned", "exited"}
              => ~(keyFile.exists /\ keyFile.owner = r))
        /\ (ccaErr[r] = "WriteFailed" /\ pc[r] \in {"certReturned", "exited"}
              => ~(pemFile.exists /\ pemFile.owner = r))

C5_Witness ==
    \E r \in Runs : \E r2 \in Runs :
        /\ ckErr[r] = "WriteFailed" /\ pc[r] = "exited" /\ keyFile.owner # r
        /\ ccaErr[r2] = "WriteFailed" /\ pc[r2] = "exited" /\ ~pemFile.exists

\* The errors of a run that are failures of its own calls, not collisions.
OwnFaults ==
    {"MkdirFailed", "OpenFailed", "GenerateKeyFailed", "EncryptFailed",
     "WriteFailed", "SelfSignFailed"}

\* C8: in every interleaving of the bootstrap runs at most one succeeds; once
\* one has, every other finished run has exited 1 with an error, which is the
\* key-exists or cert-exists error unless a call of its own failed, and
\* ca.key and ca.pem are the winner's complete files.
C8_AtMostOneWinner ==
    \A r0 \in Runs : \A r \in Runs \ {r0} :
        Succeeded(r0) /\ Finished(r) =>
            /\ status[r] = 1
            /\ (ckErr[r] \notin OwnFaults /\ ccaErr[r] \notin OwnFaults
                  => ckErr[r] = "KeyAlreadyExists" \/ ccaErr[r] = "CertAlreadyExists")
            /\ DepotOf(r0)

C8_Witness ==
    \E r0 \in Runs :
        /\ Succeeded(r0)
        /\ \A r \in Runs \ {r0} :
             Finished(r) /\ ckErr[r] = "KeyAlreadyExists" /\ status[r] = 1

\* The places of a run inside createCertificateAuthority, and after it.
InCert == {"SelfSign", "OpenCert", "WriteCert", "RemoveCert", "certReturned"}

CertAttempted(r) == pc[r] \in InCert \/ crtBytes[r] # 0 \/ ccaErr[r] # "nil"

\* C9: a run attempts createCertificateAuthority only after its own createKey
\* has returned a key without error (so ca.key is its complete key file); a
\* run whose createKey failed never attempts the certificate; and a failure
\* of either step makes the run exit 1.
C9_KeyBeforeCert ==
    \A r \in Runs :
        /\ (CertAttempted(r) =>
              /\ ckErr[r] = "nil" /\ key[r] = r
              /\ keyFile = [exists |-> TRUE, owner |-> r, data |-> "pem", key |-> r])
        /\ (ckErr[r] # "nil" => ~CertAttempted(r))
        /\ (pc[r] = "exited" /\ (ckErr[r] # "nil" \/ ccaErr[r] # "nil")
              => status[r] = 1)

C9_Witness ==
    \E r \in Runs : \E r2 \in Runs :
        /\ pc[r] = "exited" /\ ckErr[r] = "nil" /\ ccaErr[r] = "SelfSignFailed"
        /\ status[r] = 1
        /\ pc[r2] = "exited" /\ ckErr[r2] = "KeyAlreadyExists" /\ status[r2] = 1

\* ------------------------------------------------------------------ main: helpers

\* make(chan error, 2)
ErrsCap == 2

\* The steps of main, in program order.
MainSteps ==
    <<"flags", "NewFileDepot", "Atoi", "csrVerifier", "CAPass", "depotCA",
      "NewSigner", "challenge", "csrverifierMiddleware", "NewService",
      "NewLoggingService", "go", "recv">>

Rank(step) == CHOOSE i \in 1..Len(MainSteps) : MainSteps[i] = step

\* main has executed the given step and gone on (it did not exit in it).
Past(step) == Rank(mpc) > Rank(step)

\* strings.ReplaceAll(s, old, "") for a one-character old.
RECURSIVE ReplaceAll(_, _)
ReplaceAll(s, old) ==
    IF s = <<>> THEN <<>>
    ELSE IF Head(s) = old THEN ReplaceAll(Tail(s), old)
    ELSE <<Head(s)>> \o ReplaceAll(Tail(s), old)

\* The decimal digits strconv.Atoi accepts.
DigitValue ==
    [c \in {"0", "1", "2", "3", "4", "5", "6", "7", "8", "9"} |->
        CASE c = "0" -> 0 [] c = "1" -> 1 [] c = "2" -> 2 [] c = "3" -> 3
          [] c = "4" -> 4 [] c = "5" -> 5 [] c = "6" -> 6 [] c = "7" -> 7
          [] c = "8" -> 8 [] c = "9" -> 9]

\* strconv.Atoi on an unsigned decimal: -1 stands for its error.
RECURSIVE Atoi(_)
Atoi(s) ==
    IF s = <<>> THEN -1
    ELSE IF s[Len(s)] \notin DOMAIN DigitValue THEN -1
    ELSE IF Len(s) = 1 THEN DigitValue[s[1]]
    ELSE LET hi == Atoi(SubSeq(s, 1, Len(s) - 1))
         IN  IF hi = -1 THEN -1 ELSE 10 * hi + DigitValue[s[Len(s)]]

\* The values given to -allowrenew: its default, and one that is no number.
RenewalFlags == {<<"1", "4">>, <<"x">>}

\* The values given to -crtvalid: its default, and the empty string.
ValidityFlags == {<<"3", "6", "5">>, <<>>}

\* ioutil.ReadFile: an error and no data, or the contents of the file.
ReadFile ==
    {[err |-> TRUE, data |-> <<>>]}
        \cup {[err |-> FALSE, data |-> d] : d \in Strings(MaxLen)}

\* The layers of a signer chain, innermost first.
BaseSigner(pass) == [kind |-> "base", pass |-> pass]

ChallengeLayer(pass) == [kind |-> "challenge", pass |-> pass]

VerifierLayer == [kind |-> "verifier", pass |-> <<>>]

\* lginfo.Log("err", msg); os.Exit(code): main stays at the step it exited in.
Exit(code, msg) ==
    /\ exit' = code
    /\ log' = Append(log, msg)
    /\ mpc' = mpc

\* main goes on to the given step.
Goto(step) ==
    /\ mpc' = step
    /\ exit' = exit

At(step) == mpc = step /\ exit = Running

\* ------------------------------------------------------------------ main

\* The server process when no bootstrap process is run.
BootIdle ==
    /\ dirExists = TRUE
    /\ keyFile = NoFile
    /\ pemFile = NoFile
    /\ pc = [r \in Runs |-> "caMain"]
    /\ flInit = [r \in Runs |-> FALSE]
    /\ key = [r \in Runs |-> 0]
    /\ crtBytes = [r \in Runs |-> 0]
    /\ ckErr = [r \in Runs |-> "nil"]
    /\ ccaErr = [r \in Runs |-> "nil"]
    /\ status = [r \in Runs |-> Running]

InitServe ==
    /\ BootIdle
    /\ flVersion \in BOOLEAN
    /\ flCAPass \in Strings(1)
    /\ flCAPassFile \in Paths
    /\ flChallengePassword \in Strings(1)
    /\ flChallengePasswordFile \in Paths
    /\ flCSRVerifierExec \in Paths
    /\ MainEntry

\* flag.Parse and the -version exit.
main_flags ==
    /\ At("flags")
    /\ IF flVersion
         THEN Exit(0, "version")
         ELSE Goto("NewFileDepot") /\ log' = log
    /\ UNCHANGED <<bootVars, flagVars, allowRenewal, clientValidity,
                 csrVerifier, CAPass, CAPassFileContent, content, crts,
                 signer, svc, reads, ca, errs, lpc, spc, sign>>

\* file.NewFileDepot(*flDepotPath)
main_NewFileDepot ==
    /\ At("NewFileDepot")
    /\ \E ok \in BOOLEAN :
        IF ok THEN Goto("Atoi") /\ log' = log
              ELSE Exit(1, "NewFileDepot failed")
    /\ UNCHANGED <<bootVars, flagVars, allowRenewal, clientValidity,
                 csrVerifier, CAPass, CAPassFileContent, content, crts,
                 signer, svc, reads, ca, errs, lpc, spc, sign>>

\* strconv.Atoi(*flClAllowRenewal), then strconv.Atoi(*flClDuration)
main_Atoi ==
    /\ At("Atoi")
    /\ \E flClAllowRenewal \in RenewalFlags : \E flClDuration \in ValidityFlags :
        IF Atoi(flClAllowRenewal) = -1
          THEN /\ Exit(1, "No valid number for allowed renewal time")
               /\ UNCHANGED <<allowRenewal, clientValidity>>
          ELSE IF Atoi(flClDuration) = -1
            THEN /\ Exit(1, "No valid number for client cert validity")
                 /\ allowRenewal' = Atoi(flClAllowRenewal)
                 /\ clientValidity' = clientValidity
            ELSE /\ Goto("csrVerifier") /\ log' = log
                 /\ allowRenewal' = Atoi(flClAllowRenewal)
                 /\ clientValidity' = Atoi(flClDuration)
    /\ UNCHANGED <<bootVars, flagVars, csrVerifier, CAPass,
                 CAPassFileContent, content, crts, signer, svc, reads, ca,
                 errs, lpc, spc, sign>>

\* if *flCSRVerifierExec > "" { executablecsrverifier.New(...) }
main_csrVerifier ==
    /\ At("csrVerifier")
    /\ IF flCSRVerifierExec # <<>>
         THEN \E ok \in BOOLEAN :
                IF ok THEN /\ csrVerifier' = "executable"
                           /\ Goto("CAPass") /\ log' = log
                      ELSE /\ csrVerifier' = csrVerifier
                           /\ Exit(1, "Could not instantiate CSR verifier")
         ELSE /\ csrVerifier' = csrVerifier
              /\ Goto("CAPass") /\ log' = log
    /\ UNCHANGED <<bootVars, flagVars, allowRenewal, clientValidity, CAPass,
                 CAPassFileContent, content, crts, signer, svc, reads, ca,
                 errs, lpc, spc, sign>>

\* Mutant: the file is read before the two flags are compared.
main_CAPass_FileFirst ==
    /\ At("CAPass")
    /\ IF flCAPassFile # <<>>
         THEN \E res \in ReadFile :
                /\ reads' = [reads EXCEPT !.capass = IF res.err THEN "err" ELSE "ok"]
                /\ CAPassFileContent' = res.data
                /\ IF flCAPass # <<>>
                     THEN /\ Exit(1, "can not use capass and capassFile at the same time")
                          /\ CAPass' = CAPass
                     ELSE /\ CAPass' = ReplaceAll(CAPassFileContent', "\n")
                          /\ Goto("depotCA")
                          /\ log' = IF res.err THEN Append(log, "ReadFile failed") ELSE log
         ELSE /\ CAPass' = flCAPass
              /\ Goto("depotCA") /\ log' = log
              /\ UNCHANGED <<reads, CAPassFileContent>>
    /\ UNCHANGED <<bootVars, flagVars, allowRenewal, clientValidity,
                 csrVerifier, content, crts, signer, svc, ca, errs, lpc, spc,
                 sign>>

\* The resolution of CAPass from -capass and -capassFile.
main_CAPass ==
    /\ At("CAPass")
    /\ IF flCAPass # <<>> /\ flCAPassFile # <<>>
         THEN /\ Exit(1, "can not use capass and capassFile at the same time")
              /\ UNCHANGED <<reads, CAPassFileContent, CAPass>>
         ELSE IF flCAPassFile # <<>>
           THEN \E res \in ReadFile :
                  /\ reads' = [reads EXCEPT !.capass = IF res.err THEN "err" ELSE "ok"]
                  /\ CAPassFileContent' = res.data
                  /\ log' = IF res.err THEN Append(log, "ReadFile failed") ELSE log
                  /\ CAPass' = ReplaceAll(CAPassFileContent', "\n")
                  /\ Goto("depotCA")
           ELSE /\ CAPass' = flCAPass
                /\ Goto("depotCA") /\ log' = log
                /\ UNCHANGED <<reads, CAPassFileContent>>
    /\ UNCHANGED <<bootVars, flagVars, allowRenewal, clientValidity,
                 csrVerifier, content, crts, signer, svc, ca, errs, lpc, spc,
                 sign>>

\* Mutant: the test len(crts) < 1 is missing.
main_depotCA_NoCertTest ==
    /\ At("depotCA")
    /\ \E res \in {"err", "nocerts", "ok"} :
        /\ ca' = [called |-> TRUE, pass |-> CAPass, result |-> res]
        /\ crts' = IF res = "ok" THEN 1 ELSE 0
        /\ CASE res = "err" -> Exit(1, "depot.CA failed")
             [] res \in {"nocerts", "ok"} -> Goto("NewSigner") /\ log' = log
    /\ UNCHANGED <<bootVars, flagVars, allowRenewal, clientValidity,
                 csrVerifier, CAPass, CAPassFileContent, content, signer,
                 svc, reads, errs, lpc, spc, sign>>

\* depot.CA([]byte(CAPass)) and the two tests of its result.
main_depotCA ==
    /\ At("depotCA")
    /\ \E res \in {"err", "nocerts", "ok"} :
        /\ ca' = [called |-> TRUE, pass |-> CAPass, result |-> res]
        /\ crts' = IF res = "ok" THEN 1 ELSE 0
        /\ CASE res = "err" -> Exit(1, "depot.CA failed")
             [] res = "nocerts" -> Exit(1, "missing CA certificate")
             [] res = "ok" -> Goto("NewSigner") /\ log' = log
    /\ UNCHANGED <<bootVars, flagVars, allowRenewal, clientValidity,
                 csrVerifier, CAPass, CAPassFileContent, content, signer,
                 svc, reads, errs, lpc, spc, sign>>

\* scepdepot.NewSigner(depot, ..., WithCAPass(CAPass))
main_NewSigner ==
    /\ At("NewSigner")
    /\ signer' = <<BaseSigner(CAPass)>>
    /\ Goto("challenge")
    /\ UNCHANGED <<bootVars, flagVars, log, allowRenewal, clientValidity,
                 csrVerifier, CAPass, CAPassFileContent, content, crts, svc,
                 reads, ca, errs, lpc, spc, sign>>

\* The challenge layer, from -challenge and -challengeFile.
main_challenge ==
    /\ At("challenge")
    /\ IF flChallengePassword # <<>> /\ flChallengePasswordFile # <<>>
         THEN /\ Exit(1, "can not use challenge and challengeFile at the same time")
              /\ UNCHANGED <<reads, content, signer>>
         ELSE IF flChallengePassword # <<>>
           THEN /\ signer' = Append(signer, ChallengeLayer(flChallengePassword))
                /\ Goto("csrverifierMiddleware") /\ log' = log
                /\ UNCHANGED <<reads, content>>
           ELSE IF flChallengePasswordFile # <<>>
             THEN \E res \in ReadFile :
                    /\ reads' = [reads EXCEPT !.challenge = IF res.err THEN "err" ELSE "ok"]
                    /\ content' = res.data
                    /\ log' = IF res.err THEN Append(log, "ReadFile failed") ELSE log
                    /\ signer' = Append(signer, ChallengeLayer(ReplaceAll(content', "\n")))
                    /\ Goto("csrverifierMiddleware")
             ELSE /\ Goto("csrverifierMiddleware") /\ log' = log
                  /\ UNCHANGED <<reads, content, signer>>
    /\ UNCHANGED <<bootVars, flagVars, allowRenewal, clientValidity,
                 csrVerifier, CAPass, CAPassFileContent, crts, svc, ca, errs,
                 lpc, spc, sign>>

\* Mutant: the verifier layer is put next to the base signer, inside the
\* challenge layer.
main_csrverifierMiddleware_Inner ==
    /\ At("csrverifierMiddleware")
    /\ signer' = IF csrVerifier # "nil"
                   THEN <<Head(signer), VerifierLayer>> \o Tail(signer)
                   ELSE signer
    /\ Goto("NewService")
    /\ UNCHANGED <<bootVars, flagVars, log, allowRenewal, clientValidity,
                 csrVerifier, CAPass, CAPassFileContent, content, crts, svc,
                 reads, ca, errs, lpc, spc, sign>>

\* if csrVerifier != nil { signer = csrverifier.Middleware(csrVerifier, signer) }
main_csrverifierMiddleware ==
    /\ At("csrverifierMiddleware")
    /\ signer' = IF csrVerifier # "nil" THEN Append(signer, VerifierLayer) ELSE signer
    /\ Goto("NewService")
    /\ UNCHANGED <<bootVars, flagVars, log, allowRenewal, clientValidity,
                 csrVerifier, CAPass, CAPassFileContent, content, crts, svc,
                 reads, ca, errs, lpc, spc, sign>>

\* scepserver.NewService(crts[0], key, signer, WithLogger(logger))
main_NewService ==
    /\ At("NewService")
    /\ \E ok \in BOOLEAN :
        IF ok THEN /\ svc' = [signer |-> signer, layers |-> <<"service">>]
                   /\ Goto("NewLoggingService") /\ log' = log
              ELSE /\ svc' = svc
                   /\ Exit(1, "NewService failed")
    /\ UNCHANGED <<bootVars, flagVars, allowRenewal, clientValidity,
                 csrVerifier, CAPass, CAPassFileContent, content, crts,
                 signer, reads, ca, errs, lpc, spc, sign>>

\* Mutant: the service is handed on without the logging decorator.
main_NewLoggingService_Omitted ==
    /\ At("NewLoggingService")
    /\ svc' = svc
    /\ Goto("go")
    /\ UNCHANGED <<bootVars, flagVars, log, allowRenewal, clientValidity,
                 csrVerifier, CAPass, CAPassFileContent, content, crts,
                 signer, reads, ca, errs, lpc, spc, sign>>

\* svc = scepserver.NewLoggingService(..., svc)
main_NewLoggingService ==
    /\ At("NewLoggingService")
    /\ svc' = [svc EXCEPT !.layers = Append(@, "logging")]
    /\ Goto("go")
    /\ UNCHANGED <<bootVars, flagVars, log, allowRenewal, clientValidity,
                 csrVerifier, CAPass, CAPassFileContent, content, crts,
                 signer, reads, ca, errs, lpc, spc, sign>>

\* The handler, errs := make(chan error, 2), and the two go statements.
main_go ==
    /\ At("go")
    /\ errs' = <<>>
    /\ lpc' = "ListenAndServe"
    /\ spc' = "Notify"
    /\ Goto("recv")
    /\ UNCHANGED <<bootVars, flagVars, log, allowRenewal, clientValidity,
                 csrVerifier, CAPass, CAPassFileContent, content, crts,
                 signer, svc, reads, ca, sign>>

\* lginfo.Log("terminated", <-errs), and the return of main.
main_recv ==
    /\ At("recv")
    /\ errs # <<>>
    /\ errs' = Tail(errs)
    /\ Exit(0, "terminated")
    /\ UNCHANGED <<bootVars, flagVars, allowRenewal, clientValidity,
                 csrVerifier, CAPass, CAPassFileContent, content, crts,
                 signer, svc, reads, ca, lpc, spc, sign>>

\* ------------------------------------------------------------------ goroutines

\* http.ListenAndServe(port, h) returns its error.
listener_ListenAndServe ==
    /\ exit = Running
    /\ lpc = "ListenAndServe"
    /\ lpc' = "send"
    /\ UNCHANGED <<bootVars, flagVars, mpc, exit, log, allowRenewal,
                 clientValidity, csrVerifier, CAPass, CAPassFileContent,
                 content, crts, signer, svc, reads, ca, errs, spc, sign>>

\* errs <- (the listener's error)
listener_send ==
    /\ exit = Running
    /\ lpc = "send"
    /\ Len(errs) < ErrsCap
    /\ errs' = Append(errs, "listener")
    /\ lpc' = "done"
    /\ UNCHANGED <<bootVars, flagVars, mpc, exit, log, allowRenewal,
                 clientValidity, csrVerifier, CAPass, CAPassFileContent,
                 content, crts, signer, svc, reads, ca, spc, sign>>

\* c := make(chan os.Signal); signal.Notify(c, syscall.SIGINT)
signal_Notify ==
    /\ exit = Running
    /\ spc = "Notify"
    /\ spc' = "wait"
    /\ UNCHANGED <<bootVars, flagVars, mpc, exit, log, allowRenewal,
                 clientValidity, csrVerifier, CAPass, CAPassFileContent,
                 content, crts, signer, svc, reads, ca, errs, lpc, sign>>

\* <-c: a SIGINT is delivered to the waiting goroutine.
signal_recv ==
    /\ exit = Running
    /\ spc = "wait"
    /\ spc' = "send"
    /\ UNCHANGED <<bootVars, flagVars, mpc, exit, log, allowRenewal,
                 clientValidity, csrVerifier, CAPass, CAPassFileContent,
                 content, crts, signer, svc, reads, ca, errs, lpc, sign>>

\* Mutant: the goroutine loops, sending every signal it receives.
signal_send_Loop ==
    /\ exit = Running
    /\ spc = "send"
    /\ Len(errs) < ErrsCap
    /\ errs' = Append(errs, "interrupt")
    /\ spc' = "wait"
    /\ UNCHANGED <<bootVars, flagVars, mpc, exit, log, allowRenewal,
                 clientValidity, csrVerifier, CAPass, CAPassFileContent,
                 content, crts, signer, svc, reads, ca, lpc, sign>>

\* errs <- fmt.Errorf("%s", sig)
signal_send ==
    /\ exit = Running
    /\ spc = "send"
    /\ Len(errs) < ErrsCap
    /\ errs' = Append(errs, "interrupt")
    /\ spc' = "done"
    /\ UNCHANGED <<bootVars, flagVars, mpc, exit, log, allowRenewal,
                 clientValidity, csrVerifier, CAPass, CAPassFileContent,
                 content, crts, signer, svc, reads, ca, lpc, sign>>

\* ------------------------------------------------------------------ signing

\* The verdicts of the external CSR verifier on a request.
Verdicts == {"ok", "reject", "fail"}

\* A signing request reaches the service while the listener serves: it
\* passes the layers of svc and enters the outermost layer of the signer.
SignCSR ==
    /\ exit = Running
    /\ lpc = "ListenAndServe"
    /\ sign.state # "inflight"
    /\ \E csr \in Verdicts : \E ch \in Strings(1) :
        sign' = [state |-> "inflight", csr |-> csr, challenge |-> ch,
                 at |-> Len(svc.signer),
                 trail |-> [i \in 1..Len(svc.layers) |->
                              svc.layers[Len(svc.layers) + 1 - i]],
                 result |-> "none"]
    /\ UNCHANGED <<bootVars, flagVars, mpc, exit, log, allowRenewal,
                 clientValidity, csrVerifier, CAPass, CAPassFileContent,
                 content, crts, signer, svc, reads, ca, errs, lpc, spc>>

\* The layer of the signer chain the request is at.
Layer == svc.signer[sign.at]

InLayer(kind) ==
    /\ exit = Running
    /\ lpc = "ListenAndServe"
    /\ sign.state = "inflight"
    /\ Layer.kind = kind

\* The layer answers without calling the next one.
Refuse(kind, result) ==
    sign' = [sign EXCEPT !.state = "done", !.trail = Append(@, kind),
                         !.result = result]

\* The layer calls next.SignCSR.
Delegate(kind) ==
    sign' = [sign EXCEPT !.at = @ - 1, !.trail = Append(@, kind)]

\* csrverifier.Middleware: verify the CSR, then call the next signer.
csrverifier_Middleware ==
    /\ InLayer("verifier")
    /\ CASE sign.csr = "fail" -> Refuse("verifier", "VerifierExecutionFailed")
         [] sign.csr = "reject" -> Refuse("verifier", "CSRRejected")
         [] sign.csr = "ok" -> Delegate("verifier")
    /\ UNCHANGED <<bootVars, flagVars, mpc, exit, log, allowRenewal,
                 clientValidity, csrVerifier, CAPass, CAPassFileContent,
                 content, crts, signer, svc, reads, ca, errs, lpc, spc>>

\* scepserver.ChallengeMiddleware: compare the request's challenge with the
\* configured one, then call the next signer.
ChallengeMiddleware ==
    /\ InLayer("challenge")
    /\ IF sign.challenge # Layer.pass
         THEN Refuse("challenge", "ChallengeMismatch")
         ELSE Delegate("challenge")
    /\ UNCHANGED <<bootVars, flagVars, mpc, exit, log, allowRenewal,
                 clientValidity, csrVerifier, CAPass, CAPassFileContent,
                 content, crts, signer, svc, reads, ca, errs, lpc, spc>>

\* The depot signer: unlocks the CA key with its passphrase and signs.
depot_SignCSR ==
    /\ InLayer("base")
    /\ \E ok \in BOOLEAN :
        Refuse("base", IF ok THEN "signed" ELSE "SignFailed")
    /\ UNCHANGED <<bootVars, flagVars, mpc, exit, log, allowRenewal,
                 clientValidity, csrVerifier, CAPass, CAPassFileContent,
                 content, crts, signer, svc, reads, ca, errs, lpc, spc>>

NextServe ==
    \/ main_flags
    \/ main_NewFileDepot
    \/ main_Atoi
    \/ main_csrVerifier
    \/ main_CAPass
    \/ main_depotCA
    \/ main_NewSigner
    \/ main_challenge
    \/ main_csrverifierMiddleware
    \/ main_NewService
    \/ main_NewLoggingService
    \/ main_go
    \/ main_recv
    \/ listener_ListenAndServe
    \/ listener_send
    \/ signal_Notify
    \/ signal_recv
    \/ signal_send
    \/ SignCSR
    \/ csrverifier_Middleware
    \/ ChallengeMiddleware
    \/ depot_SignCSR

SpecServe == InitServe /\ [][NextServe]_vars

\* The main goroutine, blocked in <-errs, is run once a value is in errs.
SpecServeLive == SpecServe /\ WF_vars(main_recv)

\* ------------------------------------------------------------------ main: properties

\* The layers of the signer chain the request has entered, in order.
SignerTrail == SubSeq(sign.trail, Len(svc.layers) + 1, Len(sign.trail))

\* The order the pipeline is to evaluate the layers of a signer in.
Precedence(kind) ==
    CASE kind = "verifier" -> 1 [] kind = "challenge" -> 2 [] kind = "base" -> 3

Kinds(chain) == {chain[i].kind : i \in DOMAIN chain}

Entered == {SignerTrail[i] : i \in DOMAIN SignerTrail}

\* C2: every signing request meets the CSR verifier (when configured) before
\* the challenge check, and the challenge check before the base depot signer;
\* a request the verifier rejects ends with CSRRejected having entered the
\* verifier layer only, whatever its challenge.
C2_VerifierThenChallengeThenBase ==
    sign.state # "idle" =>
        /\ \A i \in DOMAIN SignerTrail : \A j \in DOMAIN SignerTrail :
             i < j => Precedence(SignerTrail[i]) < Precedence(SignerTrail[j])
        /\ ("base" \in Entered => Entered = Kinds(svc.signer))
        /\ ("challenge" \in Entered /\ csrVerifier # "nil" => "verifier" \in Entered)
        /\ (csrVerifier # "nil" /\ sign.csr = "reject" /\ sign.state = "done" =>
              /\ sign.result = "CSRRejected"
              /\ SignerTrail = <<"verifier">>)

C2_Witness ==
    /\ sign.state = "done"
    /\ sign.csr = "reject"
    /\ ChallengeLayer(sign.challenge) \in {svc.signer[i] : i \in DOMAIN svc.signer}
    /\ sign.result = "CSRRejected"

\* C3: when a secret file that was asked for cannot be read, the process
\* exits 1 and goes no further: depot.CA is not called and no signer is built
\* after an unreadable capassFile, and no challenge layer is built and nothing
\* is served after an unreadable challengeFile.
C3_UnreadableFileIsFatal ==
    /\ (reads.capass = "err" =>
          exit = 1 /\ ~ca.called /\ signer = <<>> /\ lpc = "none")
    /\ (reads.challenge = "err" =>
          exit = 1 /\ "challenge" \notin Kinds(signer) /\ lpc = "none")

\* C4: with -capass and -capassFile both non-empty main exits 1 in the CAPass
\* step with the conflict logged, and with -challenge and -challengeFile both
\* non-empty it exits 1 in the challenge step with the conflict logged; in
\* neither case is the file ever read or the step passed.
C4_ConflictNeverReads ==
    /\ (flCAPass # <<>> /\ flCAPassFile # <<>> =>
          /\ reads.capass = "none"
          /\ Rank(mpc) <= Rank("CAPass")
          /\ ~ca.called
          /\ (mpc = "CAPass" /\ exit # Running =>
                /\ exit = 1
                /\ log[Len(log)] = "can not use capass and capassFile at the same time"))
    /\ (flChallengePassword # <<>> /\ flChallengePasswordFile # <<>> =>
          /\ reads.challenge = "none"
          /\ Rank(mpc) <= Rank("challenge")
          /\ "challenge" \notin Kinds(signer)
          /\ (mpc = "challenge" /\ exit # Running =>
                /\ exit = 1
                /\ log[Len(log)] = "can not use challenge and challengeFile at the same time"))

C4_Witness ==
    /\ flChallengePassword # <<>> /\ flChallengePasswordFile # <<>>
    /\ mpc = "challenge" /\ exit = 1
    /\ reads = [capass |-> "ok", challenge |-> "none"]

\* C6: with -challenge and -challengeFile both non-empty, no signer is ever
\* built and depot.CA is never called.
C6_ConflictBeforeAnyWork ==
    flChallengePassword # <<>> /\ flChallengePasswordFile # <<>> =>
        signer = <<>> /\ ~ca.called

\* The challenge secret the Secret Resolver yields for the two flags.
EffectiveChallenge ==
    IF flChallengePasswordFile # <<>>
      THEN ReplaceAll(content, "\n")
      ELSE flChallengePassword

\* C7: once the challenge step is passed (the challenge file, if any, having
\* been read), the signer has no challenge layer when the effective challenge
\* secret is empty and exactly one when it is not.
C7_ChallengeLayerIffSecret ==
    Past("challenge") /\ reads.challenge # "err" =>
        Cardinality({i \in DOMAIN signer : signer[i].kind = "challenge"})
            = IF EffectiveChallenge = <<>> THEN 0 ELSE 1

\* Neither a challenge nor a verifier is configured.
Unguarded ==
    /\ flChallengePassword = <<>>
    /\ flChallengePasswordFile = <<>>
    /\ flCSRVerifierExec = <<>>

\* C10 as stated: the signer handed to the service has the logging layer as
\* its outermost decorator, and with no challenge and no verifier it is the
\* base depot signer inside that one decorator.
C10_LoggingWrapsSigner ==
    Past("NewService") =>
        /\ svc.signer[Len(svc.signer)].kind = "logging"
        /\ (Unguarded => Len(svc.signer) = 2 /\ svc.signer[1].kind = "base")

\* C10, amended: whenever the service is assembled, the logging layer is the
\* outermost decorator of the service, and every request passes it first; it
\* is no layer of the signer, and with no challenge and no verifier the signer
\* handed to the service is the base depot signer with no decorator at all.
C10_LoggingWrapsService ==
    /\ (Past("NewLoggingService") =>
          /\ svc.layers = <<"service", "logging">>
          /\ svc.signer = signer
          /\ signer[1] = BaseSigner(CAPass)
          /\ "logging" \notin Kinds(signer)
          /\ (Unguarded => svc.signer = <<BaseSigner(CAPass)>>))
    /\ (sign.state # "idle" => SubSeq(sign.trail, 1, 2) = <<"logging", "service">>)

C10_Witness ==
    /\ Past("NewLoggingService")
    /\ Unguarded
    /\ sign.state = "done"
    /\ sign.trail = <<"logging", "service", "base">>
    /\ sign.result = "signed"

\* C11: when depot.CA has returned an error or no certificate, main has
\* exited 1 in that step: no signer is built, no service is assembled and
\* neither goroutine (the listener among them) is started.
C11_NoCAIsFatal ==
    ca.called /\ ca.result \in {"err", "nocerts"} =>
        /\ mpc = "depotCA" /\ exit = 1
        /\ signer = <<>>
        /\ svc = <<>>
        /\ lpc = "none" /\ spc = "none"
        /\ sign = NoSign

C11_Witness ==
    /\ ca.called /\ ca.result = "nocerts"
    /\ exit = 1
    /\ log[Len(log)] = "missing CA certificate"

\* The values the two goroutines have sent on errs.
Sent == (IF lpc = "done" THEN 1 ELSE 0) + (IF spc = "done" THEN 1 ELSE 0)

\* C12: errs never holds more than its capacity, and a goroutine that is at
\* its send finds room in errs, so it does not block; main, waiting in
\* <-errs, receives nothing before the first value is sent, exits once errs
\* holds a value, and has then received exactly one value (the first sent)
\* and logged it.
C12_Shutdown ==
    /\ [](/\ Len(errs) <= ErrsCap
          /\ (exit = Running /\ lpc = "send" => Len(errs) < ErrsCap)
          /\ (exit = Running /\ spc = "send" => Len(errs) < ErrsCap)
          /\ (At("recv") => Len(errs) = Sent)
          /\ (mpc = "recv" /\ exit # Running =>
                /\ exit = 0
                /\ Len(errs) = Sent - 1
                /\ log[Len(log)] = "terminated"))
    /\ (At("recv") /\ errs # <<>> ~> exit = 0)

\* main has exited on the first value while the other goroutine had sent its
\* own and a signing request was still inside the signer chain.
C12_Witness ==
    /\ mpc = "recv" /\ exit = 0
    /\ lpc = "done" /\ spc = "done"
    /\ Len(errs) = 1
    /\ sign.state = "inflight"

\* ------------------------------------------------------------------ bootstrap: further properties

\* createKey of run r has returned.
KeyReturned(r) == pc[r] \in {"keyReturned", "exited"} \cup InCert

\* C13: whenever createKey has returned an error, no ca.key created by that
\* call exists.
C13_NoOrphanedKey ==
    \A r \in Runs :
        KeyReturned(r) /\ ckErr[r] # "nil" =>
            ~(keyFile.exists /\ keyFile.owner = r)

\* The complete key file of run r.
KeyOf(r) == [exists |-> TRUE, owner |-> r, data |-> "pem", key |-> r]

\* C14: from a depot holding neither file, whenever ca.pem exists, ca.key
\* exists, is complete and was created by the same run, and a complete ca.pem
\* holds the certificate signed with the key in ca.key.
C14_CertHasItsKey ==
    pemFile.exists =>
        /\ pemFile.owner \in Runs
        /\ keyFile = KeyOf(pemFile.owner)
        /\ (pemFile.data = "pem" => pemFile.key = keyFile.key)

C14_Witness ==
    \E r \in Runs : \E r2 \in Runs \ {r} :
        /\ DepotOf(r)
        /\ pc[r2] = "exited" /\ ckErr[r2] = "WriteFailed"

\* C15: a run with -init has exited 0 exactly when ca.key and ca.pem are the
\* complete files it created itself; a run without -init exits 0 in a step
\* that leaves the directory and both files as they were; and a run that
\* exited 1 after its createKey succeeded has left its complete ca.key.
C15_ExitStatus ==
    /\ [](\A r \in Runs :
            /\ (Finished(r) => (status[r] = 0 <=> DepotOf(r)))
            /\ (pc[r] = "exited" /\ ~flInit[r] =>
                  /\ status[r] = 0
                  /\ ~(keyFile.exists /\ keyFile.owner = r)
                  /\ ~(pemFile.exists /\ pemFile.owner = r))
            /\ (Finished(r) /\ status[r] = 1 /\ ckErr[r] = "nil" =>
                  keyFile = KeyOf(r)))
    /\ [][\A r \in Runs :
            ~flInit'[r] /\ pc[r] # pc'[r] =>
                /\ pc'[r] = "exited"
                /\ UNCHANGED <<dirExists, keyFile, pemFile>>]_vars

C15_Witness ==
    \E r \in Runs : \E r2 \in Runs \ {r} :
        /\ Finished(r) /\ status[r] = 1 /\ ckErr[r] = "nil"
        /\ keyFile = KeyOf(r) /\ ~pemFile.exists
        /\ pc[r2] = "exited" /\ ~flInit[r2] /\ status[r2] = 0

====
